---- MODULE Spec2Model ----
\* Model of src/app.py: the /analyze handler of the stock analysis API and the
\* nine step functions it calls.
\*
\* Numbers.  The program computes in IEEE doubles (numpy / pandas).  A double is
\* modelled by a record [k, n, d]:
\*     k = "fin"  the rational n / d  (d > 0)
\*     k = "inf"  +infinity (n = 1) or -infinity (n = -1)
\*     k = "nan"  NaN
\* Arithmetic on finite values is exact rational arithmetic; the rounding error
\* of binary floating point is not modelled.  Every cell of a fetched table is a
\* finite number (no missing cells).
\*
\* Text.  A Python string is modelled by the sequence of its words, and
\* `a in b` on strings by "a is a contiguous run of words of b".  Emoji that
\* start a message are written as a word such as ":green:".
EXTENDS Integers, Sequences, FiniteSets, TLC

VARIABLES
    pc,         \* position in the handler (or in a function-level run)
    ticker,     \* request.ticker.upper()
    df_raw,     \* format_step1(ticker)
    notes,      \* step2_operating_leverage(df_raw)
    s3,         \* [Strengths, Risks, Verdict] of step3_risk_vs_reward(df_raw)
    peer_df,    \* step4_peer_comparison(ticker)
    verdicts,   \* dict peer -> verdict, filled by the peer loop
    i,          \* index of the next peer of the loop over peer_df["Ticker"]
    failed,     \* history: peers whose sub-analysis raised inside the try
    rank_df,    \* step5_ranking_table(...)
    snapshot,   \* step6_company_snapshot(ticker)
    vals,       \* step7_valuation_sentiment(ticker)
    moat,       \* [Notes, Verdict] of step8_moat_check(...)
    summary,    \* step9_layman_summary(...)
    response,   \* the value analyze returns
    exc         \* the exception that left analyze (propagated to the caller)

vars == <<pc, ticker, df_raw, notes, s3, peer_df, verdicts, i, failed, rank_df,
          snapshot, vals, moat, summary, response, exc>>

\* ---------------------------------------------------------------- bounds
\* Columns of a fetched quarterly table in the statement-level harness.
MaxCols == 5
\* Columns of a fetched quarterly table in the handler runs.
MaxShortCols == 3

\* ---------------------------------------------------------------- doubles
NaN == [k |-> "nan", n |-> 0, d |-> 1]
Inf(sgn) == [k |-> "inf", n |-> sgn, d |-> 1]
Fin(a, b) == [k |-> "fin", n |-> a, d |-> b]

Sign(a) == IF a > 0 THEN 1 ELSE IF a < 0 THEN -1 ELSE 0

\* a / b for finite a, b as numpy divides doubles: x/0 is +-inf, 0/0 is NaN,
\* a warning and never an exception.
DivF(a, b) ==
    IF b = 0 THEN (IF a = 0 THEN NaN ELSE Inf(Sign(a)))
    ELSE IF b < 0 THEN Fin(-a, -b)
    ELSE Fin(a, b)

\* x > c, x < c for a double x and an integer c (any comparison with NaN is
\* false).
GT(x, c) == \/ x.k = "inf" /\ x.n > 0
            \/ x.k = "fin" /\ x.n > c * x.d
LT(x, c) == \/ x.k = "inf" /\ x.n < 0
            \/ x.k = "fin" /\ x.n < c * x.d
EqF(x, c) == x.k = "fin" /\ x.n = c * x.d

AddF(x, y) ==
    IF x.d = y.d THEN Fin(x.n + y.n, x.d)
    ELSE Fin(x.n * y.d + y.n * x.d, x.d * y.d)

RECURSIVE SumF(_)
SumF(xs) == IF Len(xs) = 0 THEN Fin(0, 1)
            ELSE IF Len(xs) = 1 THEN xs[1]
            ELSE AddF(xs[1], SumF(Tail(xs)))

RECURSIVE SumInt(_)
SumInt(xs) == IF Len(xs) = 0 THEN 0 ELSE xs[1] + SumInt(Tail(xs))

RECURSIVE SelectK(_, _)
SelectK(xs, kind) ==
    IF Len(xs) = 0 THEN <<>>
    ELSE IF xs[1].k = kind THEN <<xs[1]>> \o SelectK(Tail(xs), kind)
    ELSE SelectK(Tail(xs), kind)

\* pandas Series.mean(): NaN entries are skipped; the mean of nothing is NaN;
\* infinities add as doubles do (inf + -inf is NaN).
MeanF(xs) ==
    LET fin == SelectK(xs, "fin")
        inf == SelectK(xs, "inf")
        pos == \E j \in 1..Len(inf) : inf[j].n > 0
        neg == \E j \in 1..Len(inf) : inf[j].n < 0
    IN  IF Len(fin) + Len(inf) = 0 THEN NaN
        ELSE IF pos /\ neg THEN NaN
        ELSE IF pos THEN Inf(1)
        ELSE IF neg THEN Inf(-1)
        ELSE LET s == SumF(fin) IN Fin(s.n, s.d * Len(fin))

\* The square of pandas Series.std() (sample standard deviation, ddof = 1) of
\* values that share one denominator: NaN entries are skipped, fewer than two
\* values give NaN, an infinite value gives NaN.
VarF(xs) ==
    LET fin == SelectK(xs, "fin")
        inf == SelectK(xs, "inf")
        c   == Len(fin)
        ns  == [j \in 1..c |-> fin[j].n]
        sq  == [j \in 1..c |-> fin[j].n * fin[j].n]
    IN  IF Len(inf) > 0 THEN NaN
        ELSE IF c < 2 THEN NaN
        ELSE Fin(c * SumInt(sq) - SumInt(ns) * SumInt(ns),
                 c * (c - 1) * fin[1].d * fin[1].d)

\* std < c, for the squared value v of VarF and c >= 0.
StdLT(v, c) == v.k = "fin" /\ v.n < c * c * v.d

\* The integer nearest to num / den (den > 0), ties to the even one: the
\* rounding of np.round and of the format ":.1f".
RoundHalfEven(num, den) ==
    LET f == num \div den
        r == num - f * den
    IN  IF 2 * r < den THEN f
        ELSE IF 2 * r > den THEN f + 1
        ELSE IF f % 2 = 0 THEN f ELSE f + 1

\* np.round(x, 2): a value in hundredths; inf and NaN are kept.
Round2(x) == IF x.k = "fin" THEN Fin(RoundHalfEven(x.n * 100, x.d), 100) ELSE x

\* f"{x:.1f}": the value printed, in tenths; inf prints as "inf" and NaN as
\* "nan".
Fmt1(x) == IF x.k = "fin" THEN Fin(RoundHalfEven(x.n * 10, x.d), 10) ELSE x

\* x * 100 on a double.
Times100(x) == IF x.k = "fin" THEN Fin(x.n * 100, x.d) ELSE x

\* ---------------------------------------------------------------- text
Contains(sub, s) ==
    \E j \in 1..(Len(s) - Len(sub) + 1) : SubSeq(s, j, j + Len(sub) - 1) = sub

\* str.lower() and str.upper() on the words that occur in the model.
LowerWord(w) ==
    CASE w = "Largest" -> "largest"
      [] w = "IT"      -> "it"
      [] w = "India's" -> "india's"
      [] w = "A"       -> "a"
      [] w = "2ND"     -> "2nd"
      [] w = "Not"     -> "not"
      [] OTHER         -> w
Lower(s) == [j \in 1..Len(s) |-> LowerWord(s[j])]
Upper(t) ==
    CASE t = "infy" -> "INFY"
      [] t = "Acme" -> "ACME"
      [] OTHER      -> t

None == [k |-> "none"]

\* ---------------------------------------------------------------- step 1
\* A fetched page of /company/<ticker>/consolidated/:
\*   status  the HTTP status code
\*   tables  the number of tables pd.read_html finds
\*   labels  the row labels of the first table
\*   cols    its period columns, oldest first, each [Sales, OP, NP]
SalesLabel == "Sales +"
OpLabel == "Operating Profit"
NetLabel == "Net Profit +"
AllLabels == {SalesLabel, OpLabel, NetLabel}

Page(st, tb, lb, cs) == [status |-> st, tables |-> tb, labels |-> lb, cols |-> cs]
Quarter(s, o, n) == [Sales |-> s, OP |-> o, NP |-> n]

\* df.iloc[:, -8:]: the positions of the columns kept.
LastQuarters(cols) ==
    LET n == Len(cols) IN
    IF n > 8 THEN [j \in 1..8 |-> n - 8 + j] ELSE [j \in 1..n |-> j]

\* (profit / sales) * 100, then np.round(..., 2).
Margin(profit, sales) == Round2(Times100(DivF(profit, sales)))

Raise(e) == [raised |-> TRUE, exc |-> e, val |-> None]
Return(v) == [raised |-> FALSE, exc |-> "", val |-> v]

format_step1(page) ==
    IF page.status # 200 THEN Raise("Exception: Failed to fetch data")
    ELSE IF page.tables = 0 THEN Raise("ValueError: No tables found")
    ELSE IF SalesLabel \notin page.labels THEN Raise("KeyError: Sales")
    ELSE IF OpLabel \notin page.labels THEN Raise("KeyError: Operating Profit")
    ELSE IF NetLabel \notin page.labels THEN Raise("KeyError: Net Profit")
    ELSE LET keep == LastQuarters(page.cols) IN
         Return([j \in 1..Len(keep) |->
                   LET q == page.cols[keep[j]] IN
                   [Quarter       |-> keep[j],
                    Sales         |-> q.Sales,
                    EBITDA        |-> q.OP,
                    PAT           |-> q.NP,
                    EBITDA_Margin |-> Margin(q.OP, q.Sales),
                    PAT_Margin    |-> Margin(q.NP, q.Sales)]])

\* Columns of the frame as series of doubles.
EbitdaMargins(df) == [j \in 1..Len(df) |-> df[j].EBITDA_Margin]
PatMargins(df) == [j \in 1..Len(df) |-> df[j].PAT_Margin]
Pats(df) == [j \in 1..Len(df) |-> Fin(df[j].PAT, 1)]

\* df["Sales"].pct_change(periods=4): NaN for the first four rows, then
\* sales[j] / sales[j-4] - 1.
PctChange4(df) ==
    [j \in 1..Len(df) |->
        IF j <= 4 THEN NaN
        ELSE LET a == df[j].Sales
                 b == df[j - 4].Sales
             IN  IF b = 0 THEN DivF(a, b) ELSE DivF(a - b, b)]

\* ---------------------------------------------------------------- step 2
\* The note's three figures; the PAT margin volatility (a standard deviation)
\* is kept as its square.
step2_operating_leverage(df) ==
    LET p   == PctChange4(df)
        yoy == [j \in 1..Len(p) |-> Times100(p[j])]
    IN  [avg_yoy      |-> Fmt1(MeanF(yoy)),
         ebitda_avg   |-> Fmt1(MeanF(EbitdaMargins(df))),
         pat_var      |-> VarF(PatMargins(df))]

\* ---------------------------------------------------------------- step 3
Balanced == <<":yellow:", "Balanced", "Risk-Reward", "(Hold/Selective", "Buy)">>

Finding(label, avg) == [label |-> label, avg |-> Fmt1(avg)]

step3_inclusive(df) ==
    LET ebitda_avg == MeanF(EbitdaMargins(df))
        pat_avg    == MeanF(PatMargins(df))
        p          == PctChange4(df)
        yoy        == [j \in 1..Len(p) |-> Times100(p[j])]
        sales_avg  == MeanF(yoy)
        s1 == IF ~LT(ebitda_avg, 20) /\ ebitda_avg.k # "nan"
              THEN <<Finding("Healthy EBITDA margin", ebitda_avg)>> ELSE <<>>
        r1 == IF GT(ebitda_avg, 20)
              THEN <<>> ELSE <<Finding("Weak EBITDA margin", ebitda_avg)>>
        s2 == IF GT(pat_avg, 12)
              THEN <<Finding("Strong PAT margin", pat_avg)>> ELSE <<>>
        r2 == IF GT(pat_avg, 12)
              THEN <<>> ELSE <<Finding("Weak PAT margin", pat_avg)>>
        s3_ == IF GT(sales_avg, 8)
              THEN <<Finding("Good sales growth", sales_avg)>> ELSE <<>>
        r3 == IF GT(sales_avg, 8)
              THEN <<>> ELSE <<Finding("Weak sales growth", sales_avg)>>
    IN  [Strengths |-> s1 \o s2 \o s3_,
         Risks     |-> r1 \o r2 \o r3,
         Verdict   |-> Balanced]

step3_risk_vs_reward(df) ==
    LET ebitda_avg == MeanF(EbitdaMargins(df))
        pat_avg    == MeanF(PatMargins(df))
        p          == PctChange4(df)
        yoy        == [j \in 1..Len(p) |-> Times100(p[j])]
        sales_avg  == MeanF(yoy)
        s1 == IF GT(ebitda_avg, 20)
              THEN <<Finding("Healthy EBITDA margin", ebitda_avg)>> ELSE <<>>
        r1 == IF GT(ebitda_avg, 20)
              THEN <<>> ELSE <<Finding("Weak EBITDA margin", ebitda_avg)>>
        s2 == IF GT(pat_avg, 12)
              THEN <<Finding("Strong PAT margin", pat_avg)>> ELSE <<>>
        r2 == IF GT(pat_avg, 12)
              THEN <<>> ELSE <<Finding("Weak PAT margin", pat_avg)>>
        s3_ == IF GT(sales_avg, 8)
              THEN <<Finding("Good sales growth", sales_avg)>> ELSE <<>>
        r3 == IF GT(sales_avg, 8)
              THEN <<>> ELSE <<Finding("Weak sales growth", sales_avg)>>
    IN  [Strengths |-> s1 \o s2 \o s3_,
         Risks     |-> r1 \o r2 \o r3,
         Verdict   |-> Balanced]
\* ---------------------------------------------------------------- step 4
\* The hard-coded peer table; the percentages are written in tenths.
PeerRow(t, g, e, p) ==
    [Ticker |-> t, SalesGrowth |-> Fin(g, 10), EBITDA_Margin |-> Fin(e, 10),
     PAT_Margin |-> Fin(p, 10)]

step4_peer_comparison(t) ==
    << PeerRow("INFY", 70, 238, 168),
       PeerRow("TCS", 50, 267, 193),
       PeerRow("WIPRO", 4, 195, 139),
       PeerRow("HCLTECH", 69, 218, 145),
       PeerRow("TECHM", 29, 114, 67),
       PeerRow("LTIM", 76, 173, 125) >>

\* ---------------------------------------------------------------- step 5
NotRun == <<":warning:", "Not", "Run">>
NotAvailable == <<":warning:", "Not", "Available">>

growth_signal(val) ==
    IF GT(val, 10) THEN "Strong" ELSE IF GT(val, 5) THEN "Moderate" ELSE "Weak"

margin_signal(val) ==
    IF GT(val, 20) THEN "Strong" ELSE IF GT(val, 10) THEN "Moderate" ELSE "Weak"

step5_ranking_table(t, peers, vd) ==
    [j \in 1..Len(peers) |->
        [Ticker     |-> peers[j].Ticker,
         Growth     |-> growth_signal(peers[j].SalesGrowth),
         Margins    |-> margin_signal(peers[j].EBITDA_Margin),
         RiskReward |-> IF peers[j].Ticker \in DOMAIN vd
                        THEN vd[peers[j].Ticker] ELSE NotAvailable]]

\* ---------------------------------------------------------------- step 6
\* A fetched page of /company/<ticker>/:
\*   status  the HTTP status code
\*   about   the words of <p class="about">, or None when there is none
\*   links   the href of every <a>, each a sequence of path segments
\*   items   the text of every <li class="flex flex-space-between">
CompanyPage(st, ab, ln, it) ==
    [status |-> st, about |-> ab, links |-> ln, items |-> it]

NotFound == <<":warning:", "Not", "found">>
NoConcalls == <<":warning:", "No", "concalls", "found">>

RECURSIVE ConcallLinks(_)
ConcallLinks(links) ==
    IF Len(links) = 0 THEN <<>>
    ELSE IF Contains(<<"concall">>, links[1])
         THEN << <<"https://www.screener.in">> \o links[1] >>
              \o ConcallLinks(Tail(links))
         ELSE ConcallLinks(Tail(links))

step6_company_snapshot(page) ==
    IF page.status # 200 THEN [error |-> "Snapshot fetch failed"]
    ELSE LET all      == ConcallLinks(page.links)
             concalls == SubSeq(all, 1, IF Len(all) < 3 THEN Len(all) ELSE 3)
         IN  [Business |-> IF page.about = None THEN NotFound ELSE page.about,
              Guidance |-> IF Len(concalls) > 0 THEN concalls ELSE NoConcalls]

\* ---------------------------------------------------------------- step 7
\* float(word): the words that parse as numbers.
ParseFloat(w) ==
    CASE w = "0"  -> [ok |-> TRUE, v |-> 0]
      [] w = "2"  -> [ok |-> TRUE, v |-> 2]
      [] w = "10" -> [ok |-> TRUE, v |-> 10]
      [] w = "20" -> [ok |-> TRUE, v |-> 20]
      [] w = "30" -> [ok |-> TRUE, v |-> 30]
      [] OTHER    -> [ok |-> FALSE, v |-> 0]

\* One pass of the loop over the items.
ValuationItem(v, text) ==
    LET f  == ParseFloat(text[Len(text)])
        pe == IF Contains(<<"P/E">>, text) /\ v.PE = None /\ f.ok
              THEN Fin(f.v, 1) ELSE v.PE
        ee == IF Contains(<<"EV/EBITDA">>, text) /\ f.ok
              THEN Fin(f.v, 1) ELSE v.EV_EBITDA
        es == IF Contains(<<"EV/Sales">>, text) /\ f.ok
              THEN Fin(f.v, 1) ELSE v.EV_Sales
        pg == IF Contains(<<"PEG">>, text) /\ f.ok
              THEN Fin(f.v, 1) ELSE v.PEG
    IN  [PE |-> pe, EV_EBITDA |-> ee, EV_Sales |-> es, PEG |-> pg]

RECURSIVE ValuationLoop(_, _)
ValuationLoop(v, items) ==
    IF Len(items) = 0 THEN v
    ELSE ValuationLoop(ValuationItem(v, items[1]), Tail(items))

step7_valuation_sentiment(page) ==
    IF page.status # 200 THEN [error |-> "Failed to fetch valuation data"]
    ELSE LET v == ValuationLoop(
                    [PE |-> None, EV_EBITDA |-> None, EV_Sales |-> None,
                     PEG |-> None], page.items)
             verdict ==
                 IF v.PE = None \/ EqF(v.PE, 0) THEN "Data not found"
                 ELSE IF LT(v.PE, 15) THEN "Cheap"
                 ELSE IF ~LT(v.PE, 15) /\ ~GT(v.PE, 25) THEN "Fair"
                 ELSE "Expensive"
         IN  [PE |-> v.PE, EV_EBITDA |-> v.EV_EBITDA, EV_Sales |-> v.EV_Sales,
              PEG |-> v.PEG, Verdict |-> verdict]

\* ---------------------------------------------------------------- step 8
StrongMoat == <<":green:", "Strong", "moat">>
ModerateMoat == <<":yellow:", "Moderate", "moat">>

\* Line 209: the verdict from the notes collected.
MoatVerdictWithWeak(ns) ==
    IF Len(ns) >= 2 THEN StrongMoat
    ELSE IF Len(ns) = 0 THEN <<":red:", "Weak", "moat">>
    ELSE ModerateMoat

MoatVerdictOf(ns) == IF Len(ns) >= 2 THEN StrongMoat ELSE ModerateMoat

step8_moat_check(t, df, snap) ==
    LET ebitda_var == VarF(EbitdaMargins(df))
        ebitda_avg == MeanF(EbitdaMargins(df))
        n1 == IF GT(ebitda_avg, 20) /\ StdLT(ebitda_var, 2)
              THEN <<"Consistently strong EBITDA margins">> ELSE <<>>
        pat_avg == MeanF(Pats(df))
        n2 == IF GT(pat_avg, 1000)
              THEN <<"Sizable profits provide stability">> ELSE <<>>
        business_text ==
            Lower(IF "Business" \in DOMAIN snap THEN snap.Business ELSE <<>>)
        n3 == IF Contains(<<"largest">>, business_text)
                 \/ Contains(<<"2nd">>, business_text)
              THEN <<"Market leadership suggests structural moat">> ELSE <<>>
        ns == n1 \o n2 \o n3
    IN  [Notes   |-> ns, Verdict |-> MoatVerdictOf(ns)]

\* ---------------------------------------------------------------- step 9
PhaseInclusive(avg_sales_growth) ==
    IF ~LT(avg_sales_growth, 15) /\ avg_sales_growth.k # "nan" THEN "Early Growth"
    ELSE IF ~LT(avg_sales_growth, 8) /\ avg_sales_growth.k # "nan" THEN "Scaling"
    ELSE IF LT(avg_sales_growth, 3) \/ EqF(avg_sales_growth, 3) THEN "Declining"
    ELSE "Mature"

\* Lines 221-224: the growth phase.
Phase(avg_sales_growth) ==
    IF GT(avg_sales_growth, 15) THEN "Early Growth"
    ELSE IF GT(avg_sales_growth, 8) THEN "Scaling"
    ELSE IF LT(avg_sales_growth, 3) THEN "Declining"
    ELSE "Mature"

ActionWeakFirst(moat_verdict, rr_verdict) ==
    IF Contains(<<"Weak", "moat">>, moat_verdict) THEN "Avoid"
    ELSE IF Contains(<<"Strong", "moat">>, moat_verdict)
            /\ Contains(<<"Balanced">>, rr_verdict)
    THEN "Hold / Selective Buy"
    ELSE "Watch"

\* Lines 226-230: the suggested action.
Action(moat_verdict, rr_verdict) ==
    IF Contains(<<"Strong", "moat">>, moat_verdict)
       /\ Contains(<<"Balanced">>, rr_verdict)
    THEN "Hold / Selective Buy"
    ELSE IF Contains(<<"Weak", "moat">>, moat_verdict) THEN "Avoid"
    ELSE "Watch"

\* pat_series.iloc[-1] and .iloc[0] raise IndexError on an empty frame.
step9_layman_summary(t, df, moat_verdict, rr_verdict) ==
    IF Len(df) = 0
    THEN Raise("IndexError: single positional indexer is out-of-bounds")
    ELSE LET avg_sales_growth == Times100(MeanF(PctChange4(df)))
             first == df[1].PAT
             last  == df[Len(df)].PAT
             avg_pat_growth == Times100(DivF(last - first, first))
         IN  Return([ticker       |-> t,
                     phase        |-> Phase(avg_sales_growth),
                     sales_growth |-> Fmt1(avg_sales_growth),
                     pat_growth   |-> Fmt1(avg_pat_growth),
                     moat_verdict |-> moat_verdict,
                     rr_verdict   |-> rr_verdict,
                     action       |-> Action(moat_verdict, rr_verdict)])
\* ---------------------------------------------------------------- inputs
\* All sequences over S of length 0..n.
RECURSIVE SeqsUpTo(_, _)
SeqsUpTo(S, n) ==
    IF n = 0 THEN {<<>>}
    ELSE LET shorter == SeqsUpTo(S, n - 1) IN
         shorter \cup {Append(q, x) : q \in shorter, x \in S}

\* Quarters of the tables fetched in handler runs: a large profitable company
\* and a small thin-margin one.
ShortQuarters == {Quarter(20000, 5000, 3000), Quarter(100, 10, 5)}
ShortStatements == SeqsUpTo(ShortQuarters, MaxShortCols)

\* Quarters of the tables of the statement-level runs: sales that grow by
\* exactly 3, 8, 15 and 20 percent over 100, a quarter without profit after
\* tax and a quarter without sales.
UnitQuarters ==
    {Quarter(100, 20, 12), Quarter(103, 26, 0), Quarter(108, 27, 16),
     Quarter(115, 10, 5), Quarter(120, 30, 20), Quarter(0, 20, 10)}
\* Tables of 9 columns, one more than format_step1 keeps: a first quarter
\* followed by eight equal ones.
LongStatements ==
    {<<q0>> \o [j \in 1..8 |-> q] : q0 \in UnitQuarters, q \in UnitQuarters}
Statements == SeqsUpTo(UnitQuarters, MaxCols) \cup LongStatements

GoodPage(cols) == Page(200, 1, AllLabels, cols)
BrokenPages ==
    {Page(404, 0, {}, <<>>), Page(200, 0, {}, <<>>)}
    \cup {Page(200, 1, AllLabels \ {l}, <<>>) : l \in AllLabels}

PrimaryPages == BrokenPages \cup {GoodPage(st) : st \in ShortStatements}
PeerPages ==
    {Page(404, 0, {}, <<>>), Page(200, 1, AllLabels \ {NetLabel}, <<>>),
     GoodPage(<<Quarter(20000, 5000, 3000)>>)}

Link(n) == <<"company", "concall", n>>
CompanyPages ==
    {CompanyPage(404, None, <<>>, <<>>),
     CompanyPage(200, None, <<>>, <<>>),
     CompanyPage(200, <<"India's", "Largest", "IT", "firm">>,
                 <<Link("1"), <<"login">>, Link("2"), Link("3"), Link("4")>>,
                 << <<"Stock", "P/E", "20">>, <<"PEG", "-">>,
                    <<"Stock", "P/E", "30">> >>),
     CompanyPage(200, <<"A", "small", "firm">>, <<Link("1")>>,
                 << <<"Stock", "P/E", "30">>, <<"EV/EBITDA", "10">> >>)}

Tickers == {"infy", "TCS"}

\* Verdict texts step9_layman_summary can be handed.
WeakMoat == <<":red:", "Weak", "moat">>
MoatVerdicts ==
    {StrongMoat, ModerateMoat, WeakMoat,
     <<":warning:", "Insufficient", "data">>,
     <<":green:", "Strong", "moat", "after", ":red:", "Weak", "moat">>}
RRVerdicts == {Balanced, NotRun, NotAvailable}

\* ---------------------------------------------------------------- analyze
PeerTickers(peers) == {peers[j].Ticker : j \in 1..Len(peers)}

\* verdicts[peer] = v
Put(vd, peer, v) ==
    [t \in DOMAIN vd \cup {peer} |-> IF t = peer THEN v ELSE vd[t]]

PeerLoopStopsEarly == i > Len(peer_df) - 1

\* The loop over peer_df["Ticker"] has visited every peer.
PeerLoopDone == i > Len(peer_df)

Init ==
    /\ pc = "idle"
    /\ ticker = None /\ df_raw = None /\ notes = None /\ s3 = None
    /\ peer_df = None /\ verdicts = None /\ i = 0 /\ failed = {}
    /\ rank_df = None /\ snapshot = None /\ vals = None /\ moat = None
    /\ summary = None /\ response = None /\ exc = None

\* A POST /analyze arrives: line 250.
Request ==
    /\ pc \in {"idle", "done", "raised"}
    /\ \E t \in Tickers : ticker' = Upper(t)
    /\ pc' = "step1"
    /\ df_raw' = None /\ notes' = None /\ s3' = None
    /\ peer_df' = None /\ verdicts' = None /\ i' = 0 /\ failed' = {}
    /\ rank_df' = None /\ snapshot' = None /\ vals' = None /\ moat' = None
    /\ summary' = None /\ response' = None /\ exc' = None

\* Line 251.  An exception of format_step1 leaves analyze: nothing catches it.
Step1 ==
    /\ pc = "step1"
    /\ \E page \in PrimaryPages :
          LET r == format_step1(page) IN
          IF r.raised
          THEN /\ pc' = "raised" /\ exc' = r.exc /\ df_raw' = df_raw
          ELSE /\ pc' = "step2" /\ exc' = exc /\ df_raw' = r.val
    /\ UNCHANGED <<ticker, notes, s3, peer_df, verdicts, i, failed, rank_df,
                   snapshot, vals, moat, summary, response>>

\* Line 252.
Step2 ==
    /\ pc = "step2"
    /\ notes' = step2_operating_leverage(df_raw)
    /\ pc' = "step3"
    /\ UNCHANGED <<ticker, df_raw, s3, peer_df, verdicts, i, failed, rank_df,
                   snapshot, vals, moat, summary, response, exc>>

\* Line 253.
Step3 ==
    /\ pc = "step3"
    /\ s3' = step3_risk_vs_reward(df_raw)
    /\ pc' = "step4"
    /\ UNCHANGED <<ticker, df_raw, notes, peer_df, verdicts, i, failed, rank_df,
                   snapshot, vals, moat, summary, response, exc>>

\* Lines 254-255.
Step4 ==
    /\ pc = "step4"
    /\ peer_df' = step4_peer_comparison(ticker)
    /\ verdicts' = <<>>
    /\ i' = 1
    /\ pc' = "peers"
    /\ UNCHANGED <<ticker, df_raw, notes, s3, failed, rank_df,
                   snapshot, vals, moat, summary, response, exc>>

\* Lines 256-261: one pass of the peer loop.  Whatever format_step1 raises
\* for the peer is caught by the bare except.
PeerIter ==
    /\ pc = "peers"
    /\ ~PeerLoopDone
    /\ \E page \in PeerPages :
          LET peer == peer_df[i].Ticker
              r    == format_step1(page)
          IN  IF r.raised
              THEN /\ verdicts' = Put(verdicts, peer, NotRun)
                   /\ failed' = failed \cup {peer}
              ELSE /\ verdicts' = Put(verdicts, peer,
                                      step3_risk_vs_reward(r.val).Verdict)
                   /\ failed' = failed
    /\ i' = i + 1
    /\ UNCHANGED <<pc, ticker, df_raw, notes, s3, peer_df, rank_df,
                   snapshot, vals, moat, summary, response, exc>>

\* Line 262.
Step5 ==
    /\ pc = "peers"
    /\ PeerLoopDone
    /\ rank_df' = step5_ranking_table(ticker, peer_df, verdicts)
    /\ pc' = "step6"
    /\ UNCHANGED <<ticker, df_raw, notes, s3, peer_df, verdicts, i, failed,
                   snapshot, vals, moat, summary, response, exc>>

\* Line 263.
Step6 ==
    /\ pc = "step6"
    /\ \E page \in CompanyPages : snapshot' = step6_company_snapshot(page)
    /\ pc' = "step7"
    /\ UNCHANGED <<ticker, df_raw, notes, s3, peer_df, verdicts, i, failed,
                   rank_df, vals, moat, summary, response, exc>>

\* Line 264.
Step7 ==
    /\ pc = "step7"
    /\ \E page \in CompanyPages : vals' = step7_valuation_sentiment(page)
    /\ pc' = "step8"
    /\ UNCHANGED <<ticker, df_raw, notes, s3, peer_df, verdicts, i, failed,
                   rank_df, snapshot, moat, summary, response, exc>>

\* Line 265.
Step8 ==
    /\ pc = "step8"
    /\ moat' = step8_moat_check(ticker, df_raw, snapshot)
    /\ pc' = "step9"
    /\ UNCHANGED <<ticker, df_raw, notes, s3, peer_df, verdicts, i, failed,
                   rank_df, snapshot, vals, summary, response, exc>>

\* Line 266.  An exception of step9_layman_summary leaves analyze.
Step9 ==
    /\ pc = "step9"
    /\ LET r == step9_layman_summary(ticker, df_raw, moat.Verdict, s3.Verdict)
       IN  IF r.raised
           THEN /\ pc' = "raised" /\ exc' = r.exc /\ summary' = summary
           ELSE /\ pc' = "return" /\ exc' = exc /\ summary' = r.val
    /\ UNCHANGED <<ticker, df_raw, notes, s3, peer_df, verdicts, i, failed,
                   rank_df, snapshot, vals, moat, response>>

\* Lines 268-278.
ReturnResponse ==
    /\ pc = "return"
    /\ response' = [Step1 |-> df_raw,
                    Step2 |-> notes,
                    Step3 |-> s3,
                    Step4 |-> peer_df,
                    Step5 |-> rank_df,
                    Step6 |-> snapshot,
                    Step7 |-> vals,
                    Step8 |-> moat,
                    Step9 |-> summary]
    /\ pc' = "done"
    /\ UNCHANGED <<ticker, df_raw, notes, s3, peer_df, verdicts, i, failed,
                   rank_df, snapshot, vals, moat, summary, exc>>

Next ==
    \/ Request \/ Step1 \/ Step2 \/ Step3 \/ Step4 \/ PeerIter \/ Step5
    \/ Step6 \/ Step7 \/ Step8 \/ Step9 \/ ReturnResponse

Spec == Init /\ [][Next]_vars
\* ------------------------------------------------- statement-level runs
\* format_step1, step3_risk_vs_reward, step8_moat_check and
\* step9_layman_summary applied to every table of Statements.
Blank ==
    /\ ticker = None /\ df_raw = None /\ notes = None /\ s3 = None
    /\ peer_df = None /\ verdicts = None /\ i = 0 /\ failed = {}
    /\ rank_df = None /\ snapshot = None /\ vals = None /\ moat = None
    /\ summary = None /\ response = None /\ exc = None

InitStatement == pc = "unit" /\ Blank

CallFormatStep1 ==
    /\ pc = "unit"
    /\ \E st \in Statements : df_raw' = format_step1(GoodPage(st)).val
    /\ ticker' = "INFY"
    /\ pc' = "unit_df"
    /\ UNCHANGED <<notes, s3, peer_df, verdicts, i, failed, rank_df, snapshot,
                   vals, moat, summary, response, exc>>

CallStep3 ==
    /\ pc = "unit_df"
    /\ s3' = step3_risk_vs_reward(df_raw)
    /\ pc' = "unit_s3"
    /\ UNCHANGED <<ticker, df_raw, notes, peer_df, verdicts, i, failed, rank_df,
                   snapshot, vals, moat, summary, response, exc>>

CallStep9 ==
    /\ pc = "unit_s3"
    /\ LET m == step8_moat_check(ticker, df_raw, [error |-> "Snapshot fetch failed"])
           r == step9_layman_summary(ticker, df_raw, m.Verdict, s3.Verdict)
       IN  /\ moat' = m
           /\ IF r.raised
              THEN /\ pc' = "unit_raised" /\ exc' = r.exc /\ summary' = summary
              ELSE /\ pc' = "unit_done" /\ exc' = exc /\ summary' = r.val
    /\ UNCHANGED <<ticker, df_raw, notes, s3, peer_df, verdicts, i, failed,
                   rank_df, snapshot, vals, response>>

NextStatement == CallFormatStep1 \/ CallStep3 \/ CallStep9

SpecStatement == InitStatement /\ [][NextStatement]_vars

\* --------------------------------------------------- verdict-level runs
\* step9_layman_summary applied to every pair of verdict texts.
InitVerdict == pc = "verdict" /\ Blank

LoadShortStatement ==
    /\ pc = "verdict"
    /\ \E st \in ShortStatements : df_raw' = format_step1(GoodPage(st)).val
    /\ ticker' = "INFY"
    /\ pc' = "verdict_df"
    /\ UNCHANGED <<notes, s3, peer_df, verdicts, i, failed, rank_df, snapshot,
                   vals, moat, summary, response, exc>>

CallStep9WithVerdicts ==
    /\ pc = "verdict_df"
    /\ \E m \in MoatVerdicts, rr \in RRVerdicts :
          LET r == step9_layman_summary(ticker, df_raw, m, rr) IN
          IF r.raised
          THEN /\ pc' = "verdict_raised" /\ exc' = r.exc /\ summary' = summary
          ELSE /\ pc' = "verdict_done" /\ exc' = exc /\ summary' = r.val
    /\ UNCHANGED <<ticker, df_raw, notes, s3, peer_df, verdicts, i, failed,
                   rank_df, snapshot, vals, moat, response>>

NextVerdict == LoadShortStatement \/ CallStep9WithVerdicts

SpecVerdict == InitVerdict /\ [][NextVerdict]_vars

\* ---------------------------------------------------------------- claims
Labels(findings) == {findings[j].label : j \in 1..Len(findings)}

\* C1: in analyze, the ranking-table row of every peer whose statement could
\* not be fetched or normalized shows the "Not Available" verdict, and the row
\* of every other peer shows the verdict of the risk/reward classifier.
C1_PeerIsolation ==
    rank_df # None =>
        \A j \in 1..Len(rank_df) :
            rank_df[j].RiskReward =
                IF rank_df[j].Ticker \in failed THEN NotAvailable ELSE Balanced

\* C2: every call of analyze ends by returning an envelope whose status is
\* "success" or "error"; no exception leaves analyze.
C2_Envelope ==
    pc \in {"done", "raised"} =>
        /\ pc = "done"
        /\ "status" \in DOMAIN response
        /\ response.status \in {"success", "error"}

\* The average year-over-year sales growth step9_layman_summary computes.
GrowthOf(df) == Times100(MeanF(PctChange4(df)))

\* C3: for every defined average growth g the phase is Early Growth iff
\* g > 15, Scaling iff 8 < g <= 15, Declining iff g < 3 and Mature iff
\* 3 <= g <= 8; exactly 15 is Scaling, exactly 8 and exactly 3 are Mature.
C3_PhaseBands ==
    (pc = "unit_done" /\ GrowthOf(df_raw).k # "nan") =>
        LET g  == GrowthOf(df_raw)
            ph == summary.phase
        IN  /\ ph \in {"Early Growth", "Scaling", "Declining", "Mature"}
            /\ (ph = "Early Growth") <=> GT(g, 15)
            /\ (ph = "Scaling") <=> (GT(g, 8) /\ ~GT(g, 15))
            /\ (ph = "Declining") <=> LT(g, 3)
            /\ (ph = "Mature") <=> (~LT(g, 3) /\ ~GT(g, 8))
            /\ EqF(g, 15) => ph = "Scaling"
            /\ EqF(g, 8) => ph = "Mature"
            /\ EqF(g, 3) => ph = "Mature"

C3_Witness ==
    /\ pc = "unit_done"
    /\ EqF(GrowthOf(df_raw), 8)
    /\ summary.phase = "Mature"

\* C4: for every defined triple of averages step3_risk_vs_reward emits one
\* finding per rule, a strength iff the average is strictly above 20, 12 and
\* 8, a risk otherwise: strengths and risks together are three.
C4_OneFindingPerRule ==
    LET ea == MeanF(EbitdaMargins(df_raw))
        pa == MeanF(PatMargins(df_raw))
        sa == GrowthOf(df_raw)
    IN  (pc = "unit_s3" /\ ea.k # "nan" /\ pa.k # "nan" /\ sa.k # "nan") =>
            LET S == Labels(s3.Strengths)
                R == Labels(s3.Risks)
            IN  /\ Len(s3.Strengths) + Len(s3.Risks) = 3
                /\ ("Healthy EBITDA margin" \in S) <=> GT(ea, 20)
                /\ ("Weak EBITDA margin" \in R) <=> ~GT(ea, 20)
                /\ ("Strong PAT margin" \in S) <=> GT(pa, 12)
                /\ ("Weak PAT margin" \in R) <=> ~GT(pa, 12)
                /\ ("Good sales growth" \in S) <=> GT(sa, 8)
                /\ ("Weak sales growth" \in R) <=> ~GT(sa, 8)
                /\ S \subseteq {"Healthy EBITDA margin", "Strong PAT margin",
                                 "Good sales growth"}
                /\ R \subseteq {"Weak EBITDA margin", "Weak PAT margin",
                                 "Weak sales growth"}

C4_Witness ==
    /\ pc = "unit_s3"
    /\ Len(df_raw) >= 5
    /\ Len(s3.Strengths) = 3
    /\ Len(s3.Risks) = 0

\* C5: with fewer than 5 periods step3_risk_vs_reward emits neither "Good
\* sales growth" nor "Weak sales growth" and returns an "insufficient data"
\* risk instead.
C5_InsufficientData ==
    (pc = "unit_s3" /\ Len(df_raw) < 5) =>
        /\ "Good sales growth" \notin Labels(s3.Strengths)
        /\ "Weak sales growth" \notin Labels(s3.Risks)
        /\ "insufficient data" \in Labels(s3.Risks)

\* C6: in every period the two margins are numbers iff Sales > 0 and are
\* undefined, never zero or infinite, when Sales <= 0.
C6_MarginDefinedness ==
    pc = "unit_df" =>
        \A j \in 1..Len(df_raw) :
            /\ (df_raw[j].EBITDA_Margin.k = "fin") <=> (df_raw[j].Sales > 0)
            /\ (df_raw[j].PAT_Margin.k = "fin") <=> (df_raw[j].Sales > 0)
            /\ df_raw[j].Sales <= 0 =>
                   /\ df_raw[j].EBITDA_Margin.k = "nan"
                   /\ df_raw[j].PAT_Margin.k = "nan"

\* C7: the action is Hold / Selective Buy when the moat verdict says Strong
\* moat and the risk/reward verdict is the Balanced one, else Avoid when the
\* moat verdict says Weak moat, else Watch; the Hold test comes first.
StrongTexts ==
    {StrongMoat, <<":green:", "Strong", "moat", "after", ":red:", "Weak", "moat">>}
WeakTexts ==
    {WeakMoat, <<":green:", "Strong", "moat", "after", ":red:", "Weak", "moat">>}

C8_PatGrowthUndefined ==
    (pc \in {"unit_done", "unit_raised"} /\ Len(df_raw) > 0 /\ df_raw[1].PAT = 0) =>
        /\ pc = "unit_done"
        /\ summary.pat_growth.k = "nan"

\* C9: the ranking table exists only once every peer has a recorded outcome;
\* it has one row per peer, in the peers' order, and a row depends on nothing
\* but its own peer's data and outcome.
C9_CollectBeforeRank ==
    rank_df # None =>
        /\ DOMAIN verdicts = PeerTickers(peer_df)
        /\ i = Len(peer_df) + 1
        /\ Len(rank_df) = Len(peer_df)
        /\ \A j \in 1..Len(peer_df) :
              rank_df[j] =
                  [Ticker     |-> peer_df[j].Ticker,
                   Growth     |-> growth_signal(peer_df[j].SalesGrowth),
                   Margins    |-> margin_signal(peer_df[j].EBITDA_Margin),
                   RiskReward |-> IF peer_df[j].Ticker \in failed
                                  THEN NotRun ELSE Balanced]

C9_Witness ==
    /\ rank_df # None
    /\ "INFY" \in failed
    /\ "TCS" \notin failed
    /\ "LTIM" \in failed

\* C10: whenever analyze returns, the suggested action is Hold / Selective
\* Buy exactly when the moat check collected at least 2 notes and Watch
\* otherwise; Avoid never occurs, whatever the strengths and risks.
C10_ActionFollowsMoatNotes ==
    summary # None =>
        /\ summary.action =
               IF Len(moat.Notes) >= 2 THEN "Hold / Selective Buy" ELSE "Watch"
        /\ summary.action # "Avoid"
        /\ s3.Verdict = Balanced

C10_Witness ==
    /\ pc = "done"
    /\ Len(s3.Risks) = 3
    /\ Len(s3.Strengths) = 0
    /\ response.Step9.action = "Hold / Selective Buy"
====
